---- MODULE Spec2Model ----
(***************************************************************************)
(* Model of the message interest analyzer: the format parsers and the      *)
(* parser selector (message_parsers.py), and the MessageAnalyzer scoring   *)
(* engine (message_analyzer.py).                                           *)
(*                                                                         *)
(* Numbers.  Python floats are modelled as exact rationals [n, d] in       *)
(* lowest terms (d > 0); NaN is the record with d = 0.  Timestamps are     *)
(* whole seconds since an arbitrary midnight.  The one irrational step,    *)
(* the standard deviation in analyze_consistency, is a square root taken   *)
(* to three decimals.                                                      *)
(*                                                                         *)
(* Texts.  textblob and emoji are libraries outside the repository: a      *)
(* message text is one of a small catalogue of strings, and what the       *)
(* libraries and str methods report about each (length, emojis, '?',       *)
(* enthusiasm markers, sentiment polarity) is tabulated below.             *)
(***************************************************************************)
EXTENDS Integers, Sequences, FiniteSets, TLC

VARIABLES
    file_path,           \* the path given to get_parser and parse
    content,             \* what the file at file_path holds
    platform,            \* the platform hint (None when absent)
    parser,              \* the parser get_parser returned
    parse_result,        \* what parser.parse returned or raised
    messages,            \* the list handed to load_messages (parser output)
    df,                  \* the DataFrame: [rows, has_gap, time_gap]
    target_sender,       \* the target sender of this analysis
    engagement_signals,  \* MessageAnalyzer.engagement_signals
    results,             \* what calculate_overall_interest returned last
    ret,                 \* what the last direct analyze_* call returned
    calls,               \* calculate_overall_interest calls made on this
                         \* analyzer so far: 0, 1 or 2 for "more than one"
    pc                   \* position of the caller

parserVars == <<file_path, content, platform, parser, parse_result>>
analyzerVars ==
    <<messages, df, target_sender, engagement_signals, results, ret, calls>>
vars == <<parserVars, analyzerVars, pc>>

-----------------------------------------------------------------------------
(* Bounds of the model *)

\* longest message sequence of the general input families
MaxLen == 3
\* longest message sequence of the daily-burst family (analyze_consistency
\* needs at least 5 messages of the target to leave its default)
MaxBurst == 5
\* longest message sequence a reused analyzer is given
MaxHistoryLen == 2

-----------------------------------------------------------------------------
(* Rational arithmetic *)

Abs(x) == IF x < 0 THEN -x ELSE x

RECURSIVE GCD(_, _)
GCD(a, b) == IF b = 0 THEN a ELSE GCD(b, a % b)

Q(n, d) ==
    LET s == IF d < 0 THEN -1 ELSE 1
        g == GCD(Abs(n), Abs(d))
    IN  [n |-> (s * n) \div g, d |-> (s * d) \div g]

I(k) == [n |-> k, d |-> 1]
NaN == [n |-> 0, d |-> 0]
IsNaN(x) == x.d = 0

QAdd(x, y) == Q(x.n * y.d + y.n * x.d, x.d * y.d)
QSub(x, y) == Q(x.n * y.d - y.n * x.d, x.d * y.d)
QMul(x, y) == Q(x.n * y.n, x.d * y.d)
QDiv(x, y) == Q(x.n * y.d, x.d * y.n)
\* comparisons with NaN are false, as in IEEE arithmetic
QLt(x, y) == ~IsNaN(x) /\ ~IsNaN(y) /\ x.n * y.d < y.n * x.d
QLe(x, y) == ~IsNaN(x) /\ ~IsNaN(y) /\ x.n * y.d <= y.n * x.d
QGt(x, y) == QLt(y, x)
QGe(x, y) == QLe(y, x)
\* Python's max(a, b) returns b only when b > a, min(a, b) only when b < a
QMax(a, b) == IF QGt(b, a) THEN b ELSE a
QMin(a, b) == IF QLt(b, a) THEN b ELSE a

\* floor of a rational
QFloor(x) == x.n \div x.d

\* round(x, 1): to the nearest tenth, ties to the even tenth
Round1(x) ==
    LET t  == QMul(x, I(10))
        f  == QFloor(t)
        r2 == 2 * (t.n - f * t.d)      \* twice the remainder, against t.d
        up == r2 > t.d \/ (r2 = t.d /\ f % 2 = 1)
    IN  Q(IF up THEN f + 1 ELSE f, 10)

\* the largest r in lo..hi with r * r <= x, by bisection
RECURSIVE ISqrtIn(_, _, _)
ISqrtIn(x, lo, hi) ==
    IF lo >= hi THEN lo
    ELSE LET mid == (lo + hi + 1) \div 2
         IN  IF mid * mid <= x THEN ISqrtIn(x, mid, hi) ELSE ISqrtIn(x, lo, mid - 1)
\* square root to three decimals (rounded down)
QSqrt(x) == Q(ISqrtIn((x.n * 1000000) \div x.d, 0, 40000), 1000)

RECURSIVE SumInt(_)
SumInt(s) == IF s = <<>> THEN 0 ELSE Head(s) + SumInt(Tail(s))

RECURSIVE SumQ(_)
SumQ(s) == IF s = <<>> THEN I(0) ELSE QAdd(Head(s), SumQ(Tail(s)))

\* np.mean / Series.mean of a non-empty sequence
MeanInt(s) == Q(SumInt(s), Len(s))
MeanQ(s) == QDiv(SumQ(s), I(Len(s)))

Map(f(_), s) == [i \in 1..Len(s) |-> f(s[i])]
Count(P(_), s) == Len(SelectSeq(s, P))

-----------------------------------------------------------------------------
(* The message model *)

Senders == {"You", "Sarah"}
\* "Alex" sends nothing in any modelled conversation
Targets == {"Sarah", "Alex"}

\* The catalogue of message texts (":heart_eyes:" stands for the one emoji
\* character U+1F60D, which is in positive_emojis)
Texts == {"", "awesome!", "terrible day?", "love it :heart_eyes:"}

\* Series.str.len(): characters of the text (the emoji is one character)
TextLen(t) ==
    CASE t = "" -> 0
      [] t = "awesome!" -> 8
      [] t = "terrible day?" -> 13
      [] t = "love it :heart_eyes:" -> 9
      [] OTHER -> 2

\* len(emoji.emoji_list(msg))
EmojiCount(t) == IF t = "love it :heart_eyes:" THEN 1 ELSE 0

\* emojis of the text that are in positive_emojis
PositiveEmojiCount(t) == IF t = "love it :heart_eyes:" THEN 1 ELSE 0

\* '?' in msg
HasQuestion(t) == t = "terrible day?"

\* number of enthusiasm_markers that occur in str(msg).lower()
MarkerCount(t) ==
    CASE t = "awesome!" -> 2                    \* '!' and 'awesome'
      [] t = "love it :heart_eyes:" -> 1        \* 'love'
      [] OTHER -> 0

\* TextBlob(str(msg)).sentiment.polarity, a value in [-1, 1]
Polarity(t) ==
    CASE t = "awesome!" -> I(1)
      [] t = "terrible day?" -> I(-1)
      [] t = "love it :heart_eyes:" -> Q(1, 2)
      [] OTHER -> I(0)

Message(text, timestamp, sender) ==
    [text |-> text, timestamp |-> timestamp, sender |-> sender]

SecondsPerDay == 86400

\* df[df['sender'] == target_sender] and df[df['sender'] != target_sender]
TheirRows(rows, target) ==
    LET P(m) == m.sender = target IN SelectSeq(rows, P)
YourRows(rows, target) ==
    LET P(m) == m.sender # target IN SelectSeq(rows, P)

-----------------------------------------------------------------------------
(* The eight signal computations *)

\* min(100, max(0, score))
Clamp(score) == QMin(I(100), QMax(I(0), score))

\* the elapsed minutes of every your-message directly followed by a
\* their-message
ResponseTimes(rows, target) ==
    LET F[i \in 0..(Len(rows) - 1)] ==
            IF i = 0 THEN <<>>
            ELSE IF rows[i].sender # target /\ rows[i + 1].sender = target
                 THEN Append(F[i - 1],
                             Q(rows[i + 1].timestamp - rows[i].timestamp, 60))
                 ELSE F[i - 1]
    IN  IF rows = <<>> THEN <<>> ELSE F[Len(rows) - 1]

ResponseScore(avg_response) ==
    IF QLt(avg_response, I(5)) THEN I(100)
    ELSE IF QLt(avg_response, I(30))
        THEN QSub(I(100), QMul(QSub(avg_response, I(5)), Q(8, 10)))
    ELSE IF QLt(avg_response, I(60))
        THEN QSub(I(80), QMul(QSub(avg_response, I(30)), Q(67, 100)))
    ELSE IF QLt(avg_response, I(180))
        THEN QSub(I(60), QMul(QSub(avg_response, I(60)), Q(17, 100)))
    ELSE QMax(I(20), QSub(I(40), QDiv(QSub(avg_response, I(180)), I(60))))

analyze_response_time(d, target) ==
    LET response_times == ResponseTimes(d.rows, target)
    IN  IF response_times = <<>> THEN I(50)
        ELSE Clamp(ResponseScore(MeanQ(response_times)))

analyze_message_length(d, target) ==
    LET their == Map(LAMBDA m : TextLen(m.text), TheirRows(d.rows, target))
        your  == Map(LAMBDA m : TextLen(m.text), YourRows(d.rows, target))
    IN  IF Len(their) = 0 THEN I(0)
        ELSE
          LET their_avg_length == MeanInt(their)
              your_avg_length  == IF Len(your) > 0 THEN MeanInt(your) ELSE I(50)
              ratio == QDiv(their_avg_length, QMax(your_avg_length, I(1)))
              score ==
                  IF QGe(ratio, Q(8, 10)) THEN I(100)
                  ELSE IF QGe(ratio, Q(5, 10))
                      THEN QAdd(I(70), QMul(QSub(ratio, Q(5, 10)), I(100)))
                  ELSE QMax(I(30), QMul(ratio, I(140)))
          IN  QMin(I(100), score)

analyze_emoji_usage(d, target) ==
    LET their == TheirRows(d.rows, target)
    IN  IF Len(their) = 0 THEN I(0)
        ELSE
          LET emoji_count == SumInt(Map(LAMBDA m : EmojiCount(m.text), their))
              positive_emoji_count ==
                  SumInt(Map(LAMBDA m : PositiveEmojiCount(m.text), their))
              avg_emojis == Q(emoji_count, Len(their))
              positive_ratio ==
                  Q(positive_emoji_count,
                    IF emoji_count > 1 THEN emoji_count ELSE 1)
              base_score ==
                  IF QGe(avg_emojis, Q(5, 10)) THEN I(90)
                  ELSE IF QGe(avg_emojis, Q(3, 10)) THEN I(70)
                  ELSE IF QGe(avg_emojis, Q(1, 10)) THEN I(50)
                  ELSE I(30)
              bonus == QMul(positive_ratio, I(20))
          IN  QMin(I(100), QAdd(base_score, bonus))

analyze_question_asking(d, target) ==
    LET their == TheirRows(d.rows, target)
    IN  IF Len(their) = 0 THEN I(0)
        ELSE
          LET question_count == Count(LAMBDA m : HasQuestion(m.text), their)
              question_ratio == Q(question_count, Len(their))
              score ==
                  IF QLe(Q(2, 10), question_ratio) /\ QLe(question_ratio, Q(4, 10))
                      THEN I(100)
                  ELSE IF QLe(Q(1, 10), question_ratio) /\ QLt(question_ratio, Q(2, 10))
                      THEN QAdd(I(50), QMul(QSub(question_ratio, Q(1, 10)), I(500)))
                  ELSE IF QLt(Q(4, 10), question_ratio) /\ QLe(question_ratio, Q(6, 10))
                      THEN QSub(I(100), QMul(QSub(question_ratio, Q(4, 10)), I(100)))
                  ELSE QMax(I(20), QMul(I(60), question_ratio))
          IN  QMin(I(100), score)

\* df['timestamp'].diff().dt.total_seconds() / 3600: NaN for the first row
TimeGaps(rows) ==
    [i \in 1..Len(rows) |->
        IF i = 1 THEN NaN
        ELSE Q(rows[i].timestamp - rows[i - 1].timestamp, 3600)]

\* hours of silence after which a message starts a new conversation
GapHours == 4

\* the time_gap column written whatever the number of rows
WithTimeGapAlways(d) ==
    [rows |-> d.rows, has_gap |-> TRUE, time_gap |-> TimeGaps(d.rows)]

\* the df after analyze_conversation_initiation: the rows as they were, with
\* the time_gap column (re)written when the frame has at least 2 rows
WithTimeGap(d) ==
    IF Len(d.rows) < 2 THEN d
    ELSE [rows |-> d.rows, has_gap |-> TRUE, time_gap |-> TimeGaps(d.rows)]

\* analyze_conversation_initiation with a gap of exactly 4 hours counted as a
\* conversation break
analyze_conversation_initiation_inclusive(d, target) ==
    IF Len(d.rows) < 2 THEN I(50)
    ELSE
      LET time_gap == WithTimeGap(d).time_gap
          starts == {i \in 1..Len(d.rows) : QGe(time_gap[i], I(GapHours))}
      IN  IF starts = {} THEN I(50)
          ELSE
            LET their_initiations ==
                    Cardinality({i \in starts : d.rows[i].sender = target})
                initiation_ratio == Q(their_initiations, Cardinality(starts))
                score ==
                    IF QLe(Q(4, 10), initiation_ratio)
                       /\ QLe(initiation_ratio, Q(6, 10))
                        THEN I(100)
                    ELSE IF QLe(Q(3, 10), initiation_ratio)
                            /\ QLt(initiation_ratio, Q(4, 10))
                        THEN QAdd(I(70),
                                  QMul(QSub(initiation_ratio, Q(3, 10)), I(300)))
                    ELSE IF QLt(Q(6, 10), initiation_ratio)
                            /\ QLe(initiation_ratio, Q(7, 10))
                        THEN QSub(I(100),
                                  QMul(QSub(initiation_ratio, Q(6, 10)), I(100)))
                    ELSE QMax(I(30), QMul(initiation_ratio, I(150)))
            IN  QMin(I(100), score)

analyze_conversation_initiation(d, target) ==
    IF Len(d.rows) < 2 THEN I(50)
    ELSE
      LET time_gap == WithTimeGap(d).time_gap
          starts == {i \in 1..Len(d.rows) : QGt(time_gap[i], I(GapHours))}
      IN  IF starts = {} THEN I(50)
          ELSE
            LET their_initiations ==
                    Cardinality({i \in starts : d.rows[i].sender = target})
                initiation_ratio == Q(their_initiations, Cardinality(starts))
                score ==
                    IF QLe(Q(4, 10), initiation_ratio)
                       /\ QLe(initiation_ratio, Q(6, 10))
                        THEN I(100)
                    ELSE IF QLe(Q(3, 10), initiation_ratio)
                            /\ QLt(initiation_ratio, Q(4, 10))
                        THEN QAdd(I(70),
                                  QMul(QSub(initiation_ratio, Q(3, 10)), I(300)))
                    ELSE IF QLt(Q(6, 10), initiation_ratio)
                            /\ QLe(initiation_ratio, Q(7, 10))
                        THEN QSub(I(100),
                                  QMul(QSub(initiation_ratio, Q(6, 10)), I(100)))
                    ELSE QMax(I(30), QMul(initiation_ratio, I(150)))
            IN  QMin(I(100), score)

\* analyze_enthusiasm without the cap of 40 on the marker term
analyze_enthusiasm_uncapped(d, target) ==
    LET their == TheirRows(d.rows, target)
    IN  IF Len(their) = 0 THEN I(0)
        ELSE
          LET avg_sentiment == MeanQ(Map(LAMBDA m : Polarity(m.text), their))
              enthusiasm_count ==
                  SumInt(Map(LAMBDA m : MarkerCount(m.text), their))
              enthusiasm_ratio == Q(enthusiasm_count, Len(their))
              sentiment_score ==
                  QMul(QDiv(QAdd(avg_sentiment, I(1)), I(2)), I(60))
          IN  QAdd(sentiment_score, QMul(enthusiasm_ratio, I(100)))

analyze_enthusiasm(d, target) ==
    LET their == TheirRows(d.rows, target)
    IN  IF Len(their) = 0 THEN I(0)
        ELSE
          LET avg_sentiment == MeanQ(Map(LAMBDA m : Polarity(m.text), their))
              enthusiasm_count ==
                  SumInt(Map(LAMBDA m : MarkerCount(m.text), their))
              enthusiasm_ratio == Q(enthusiasm_count, Len(their))
              sentiment_score ==
                  QMul(QDiv(QAdd(avg_sentiment, I(1)), I(2)), I(60))
              enthusiasm_score == QMin(I(40), QMul(enthusiasm_ratio, I(100)))
          IN  QAdd(sentiment_score, enthusiasm_score)

\* their_messages.groupby('date').size(): the count of each day that has a
\* message, in day order
DailyCounts(their) ==
    LET days == {m.timestamp \div SecondsPerDay : m \in {their[i] : i \in 1..Len(their)}}
        dayOf(i) == their[i].timestamp \div SecondsPerDay
        F[k \in 0..Cardinality(days)] ==
            IF k = 0 THEN <<>>
            ELSE LET prev == F[k - 1]
                     done == {x \in days :
                                Cardinality({y \in days : y < x}) < k - 1}
                     x == CHOOSE x \in days \ done :
                                \A y \in days \ done : x <= y
                 IN  Append(prev,
                            Cardinality({i \in 1..Len(their) : dayOf(i) = x}))
    IN  F[Cardinality(days)]

\* Series.std(): the sample standard deviation (ddof = 1)
StdInt(s) ==
    LET mean == MeanInt(s)
        sq(c) == QMul(QSub(I(c), mean), QSub(I(c), mean))
    IN  QSqrt(QDiv(SumQ(Map(sq, s)), I(Len(s) - 1)))

analyze_consistency(d, target) ==
    LET their == TheirRows(d.rows, target)
    IN  IF Len(their) < 5 THEN I(50)
        ELSE
          LET daily_counts == DailyCounts(their)
          IN  IF Len(daily_counts) < 2 THEN I(70)
              ELSE
                LET cv == QDiv(StdInt(daily_counts), MeanInt(daily_counts))
                IN  IF QLt(cv, Q(5, 10)) THEN I(100)
                    ELSE IF QLt(cv, I(1))
                        THEN QSub(I(100), QMul(QSub(cv, Q(5, 10)), I(60)))
                    ELSE QMax(I(30), QSub(I(70), QMul(cv, I(20))))

\* analyze_reciprocity without the floor of 20 in its last branch
analyze_reciprocity_nofloor(d, target) ==
    IF Len(d.rows) < 2 THEN I(50)
    ELSE
      LET their_count == Len(TheirRows(d.rows, target))
          your_count  == Len(d.rows) - their_count
      IN  IF your_count = 0
              THEN (IF their_count > 0 THEN I(100) ELSE I(0))
          ELSE
            LET ratio == Q(their_count, your_count)
            IN  IF QLe(Q(8, 10), ratio) /\ QLe(ratio, Q(12, 10)) THEN I(100)
                ELSE IF QLe(Q(5, 10), ratio) /\ QLt(ratio, Q(8, 10))
                    THEN QAdd(I(60), QMul(QSub(ratio, Q(5, 10)), I(133)))
                ELSE IF QLt(Q(12, 10), ratio) /\ QLe(ratio, Q(15, 10))
                    THEN QSub(I(100), QMul(QSub(ratio, Q(12, 10)), I(50)))
                ELSE QMin(I(100), QMul(ratio, I(70)))

\* analyze_reciprocity without the test for fewer than 2 messages
analyze_reciprocity_unguarded(d, target) ==
      LET their_count == Len(TheirRows(d.rows, target))
          your_count  == Len(d.rows) - their_count
      IN  IF your_count = 0
              THEN (IF their_count > 0 THEN I(100) ELSE I(0))
          ELSE
            LET ratio == Q(their_count, your_count)
            IN  IF QLe(Q(8, 10), ratio) /\ QLe(ratio, Q(12, 10)) THEN I(100)
                ELSE IF QLe(Q(5, 10), ratio) /\ QLt(ratio, Q(8, 10))
                    THEN QAdd(I(60), QMul(QSub(ratio, Q(5, 10)), I(133)))
                ELSE IF QLt(Q(12, 10), ratio) /\ QLe(ratio, Q(15, 10))
                    THEN QSub(I(100), QMul(QSub(ratio, Q(12, 10)), I(50)))
                ELSE QMax(I(20), QMin(I(100), QMul(ratio, I(70))))

analyze_reciprocity(d, target) ==
    IF Len(d.rows) < 2 THEN I(50)
    ELSE
      LET their_count == Len(TheirRows(d.rows, target))
          your_count  == Len(d.rows) - their_count
      IN  IF your_count = 0
              THEN (IF their_count > 0 THEN I(100) ELSE I(0))
          ELSE
            LET ratio == Q(their_count, your_count)
            IN  IF QLe(Q(8, 10), ratio) /\ QLe(ratio, Q(12, 10)) THEN I(100)
                ELSE IF QLe(Q(5, 10), ratio) /\ QLt(ratio, Q(8, 10))
                    THEN QAdd(I(60), QMul(QSub(ratio, Q(5, 10)), I(133)))
                ELSE IF QLt(Q(12, 10), ratio) /\ QLe(ratio, Q(15, 10))
                    THEN QSub(I(100), QMul(QSub(ratio, Q(12, 10)), I(50)))
                ELSE QMax(I(20), QMin(I(100), QMul(ratio, I(70))))

-----------------------------------------------------------------------------
(* The aggregator *)

SignalKeys ==
    {"response_time", "message_length", "emoji_usage", "question_asking",
     "conversation_initiation", "enthusiasm", "consistency", "reciprocity"}

\* MessageAnalyzer.__init__
NewSignals == [k \in SignalKeys |-> I(0)]

\* a weights table with response_time at 0.28, which sums to 1.1
weights_unnormalised ==
    [response_time |-> Q(28, 100), conversation_initiation |-> Q(15, 100),
     enthusiasm |-> Q(15, 100), reciprocity |-> Q(13, 100),
     message_length |-> Q(12, 100), question_asking |-> Q(10, 100),
     emoji_usage |-> Q(9, 100), consistency |-> Q(8, 100)]

\* the weights table, in hundredths
weights ==
    [response_time |-> Q(18, 100), conversation_initiation |-> Q(15, 100),
     enthusiasm |-> Q(15, 100), reciprocity |-> Q(13, 100),
     message_length |-> Q(12, 100), question_asking |-> Q(10, 100),
     emoji_usage |-> Q(9, 100), consistency |-> Q(8, 100)]

\* the eight assignments, had they kept a score the analyzer already holds
ComputeSignalsKeepingOld(signals, d, target) ==
    [k \in DOMAIN signals |->
        IF signals[k] # I(0) THEN signals[k]
        ELSE CASE k = "response_time" -> analyze_response_time(d, target)
               [] k = "message_length" -> analyze_message_length(d, target)
               [] k = "emoji_usage" -> analyze_emoji_usage(d, target)
               [] k = "question_asking" -> analyze_question_asking(d, target)
               [] k = "conversation_initiation" ->
                      analyze_conversation_initiation(d, target)
               [] k = "enthusiasm" -> analyze_enthusiasm(d, target)
               [] k = "consistency" -> analyze_consistency(d, target)
               [] OTHER -> analyze_reciprocity(d, target)]

\* the eight assignments to self.engagement_signals; analyze_consistency and
\* analyze_reciprocity run on the frame analyze_conversation_initiation left
ComputeSignals(signals, d, target) ==
    [signals EXCEPT
        !["response_time"] = analyze_response_time(d, target),
        !["message_length"] = analyze_message_length(d, target),
        !["emoji_usage"] = analyze_emoji_usage(d, target),
        !["question_asking"] = analyze_question_asking(d, target),
        !["conversation_initiation"] = analyze_conversation_initiation(d, target),
        !["enthusiasm"] = analyze_enthusiasm(WithTimeGap(d), target),
        !["consistency"] = analyze_consistency(WithTimeGap(d), target),
        !["reciprocity"] = analyze_reciprocity(WithTimeGap(d), target)]

RECURSIVE WeightedSum(_, _)
WeightedSum(signals, keys) ==
    IF keys = {} THEN I(0)
    ELSE LET k == CHOOSE k \in keys : TRUE
         IN  QAdd(QMul(signals[k], weights[k]), WeightedSum(signals, keys \ {k}))

\* sum(self.engagement_signals[signal] * weights[signal] for signal in ...)
OverallScore(signals) == WeightedSum(signals, DOMAIN signals)

Interpretation(overall_score) ==
    IF QGe(overall_score, I(80)) THEN "Strong interest - Very positive signs!"
    ELSE IF QGe(overall_score, I(65)) THEN "Good interest - Looking promising"
    ELSE IF QGe(overall_score, I(50)) THEN "Moderate interest - Could go either way"
    ELSE IF QGe(overall_score, I(35)) THEN "Low interest - Not looking great"
    ELSE "Minimal interest - Might want to move on"

\* the dict calculate_overall_interest returns, from the signals it computed
MakeResults(signals, d, target) ==
    LET overall_score == OverallScore(signals)
        their == Len(TheirRows(d.rows, target))
    IN  [overall_percentage |-> Round1(overall_score),
         interpretation |-> Interpretation(overall_score),
         signal_breakdown |-> [k \in DOMAIN signals |-> Round1(signals[k])],
         message_count |-> Len(d.rows),
         their_message_count |-> their,
         your_message_count |-> Len(d.rows) - their]

NoResults == [overall_percentage |-> NaN]
NoReturn == [fn |-> "none", value |-> NaN]
NoFrame == [rows |-> <<>>, has_gap |-> FALSE, time_gap |-> <<>>]

-----------------------------------------------------------------------------
(* load_messages *)

IsSorted(rows) ==
    \A i \in 1..(Len(rows) - 1) : rows[i].timestamp <= rows[i + 1].timestamp

RemoveAt(s, i) == SubSeq(s, 1, i - 1) \o SubSeq(s, i + 1, Len(s))

\* The orders DataFrame.sort_values('timestamp') may return.  The call
\* leaves kind at its default, 'quicksort', which pandas documents as not
\* stable: rows with equal timestamps may come out in any order.
RECURSIVE SortOutcomes(_)
SortOutcomes(msgs) ==
    IF msgs = <<>> THEN {<<>>}
    ELSE UNION {
            {<<msgs[i]>> \o rest : rest \in SortOutcomes(RemoveAt(msgs, i))} :
            i \in {j \in 1..Len(msgs) :
                     \A k \in 1..Len(msgs) : msgs[j].timestamp <= msgs[k].timestamp}}

\* the frames load_messages may return for a non-empty list
load_messages(msgs) ==
    {[rows |-> r, has_gap |-> FALSE, time_gap |-> <<>>] : r \in SortOutcomes(msgs)}

-----------------------------------------------------------------------------
(* Input families *)

\* a conversation from a sequence of steps [gap, text, sender]: the first
\* message is sent at time 0, each later one gap seconds after its
\* predecessor
RECURSIVE TimeAt(_, _)
TimeAt(steps, i) == IF i <= 1 THEN 0 ELSE TimeAt(steps, i - 1) + steps[i].gap

Conversation(steps) ==
    [i \in 1..Len(steps) |-> Message(steps[i].text, TimeAt(steps, i), steps[i].sender)]

StepSeqs(Gaps, Txts, lo, hi) ==
    UNION {[1..n -> [gap : Gaps, text : Txts, sender : Senders]] : n \in lo..hi}

Conversations(Gaps, Txts, lo, hi) ==
    {Conversation(s) : s \in {t \in StepSeqs(Gaps, Txts, lo, hi) : t[1].gap = CHOOSE g \in Gaps : TRUE}}

\* short conversations over every text, a minute between messages
TextInputs == Conversations({60}, Texts, 1, MaxLen)

\* short conversations of empty messages over the delays that separate the
\* response-time segments and the conversation break
TimingInputs ==
    Conversations({120, 1200, 3595, 3600, 7200, 14400, 18000}, {""}, 1, MaxLen)

\* longer runs of messages an hour or a day apart
BurstInputs == Conversations({3600, 86400}, {""}, 5, MaxBurst)

\* exchanges of two messages with a reply after 44 min 20 s or after 2 h 6 min,
\* whose overall score falls just below a band
BandInputs == Conversations({2660, 7560}, {"", "awesome!"}, 2, 2)

ScoreInputs == TextInputs \cup TimingInputs \cup BurstInputs \cup BandInputs

-----------------------------------------------------------------------------
(* The analyzer's operations *)

\* no file is involved
ParserIdle ==
    /\ file_path = <<>>
    /\ content = [kind |-> "none"]
    /\ platform = [given |-> FALSE, text |-> <<>>]
    /\ parser = "none"
    /\ parse_result = [status |-> "none"]

\* analyzer.load_messages(messages)
LoadMessages ==
    /\ pc = "new"
    /\ messages # <<>>
    /\ df' \in load_messages(messages)
    /\ pc' = "loaded"
    /\ UNCHANGED <<parserVars, messages, target_sender, engagement_signals,
                   results, ret, calls>>

\* a direct call of one analyze_* method that leaves the frame alone
Call(fn, value) ==
    /\ pc = "loaded"
    /\ ret' = [fn |-> fn, value |-> value]
    /\ UNCHANGED <<parserVars, messages, target_sender, engagement_signals,
                   results, calls, pc>>

AnalyzeResponseTime ==
    Call("response_time", analyze_response_time(df, target_sender)) /\ UNCHANGED df
AnalyzeMessageLength ==
    Call("message_length", analyze_message_length(df, target_sender)) /\ UNCHANGED df
AnalyzeEmojiUsage ==
    Call("emoji_usage", analyze_emoji_usage(df, target_sender)) /\ UNCHANGED df
AnalyzeQuestionAsking ==
    Call("question_asking", analyze_question_asking(df, target_sender)) /\ UNCHANGED df
AnalyzeConversationInitiation ==
    /\ Call("conversation_initiation",
            analyze_conversation_initiation(df, target_sender))
    /\ df' = WithTimeGap(df)
AnalyzeEnthusiasm ==
    Call("enthusiasm", analyze_enthusiasm(df, target_sender)) /\ UNCHANGED df
AnalyzeConsistency ==
    Call("consistency", analyze_consistency(df, target_sender)) /\ UNCHANGED df
AnalyzeReciprocity ==
    Call("reciprocity", analyze_reciprocity(df, target_sender)) /\ UNCHANGED df

\* analyzer.calculate_overall_interest(df, target_sender)
CalculateOverallInterest ==
    /\ pc = "loaded"
    /\ engagement_signals' = ComputeSignals(engagement_signals, df, target_sender)
    /\ df' = WithTimeGap(df)
    /\ results' = MakeResults(engagement_signals', df', target_sender)
    /\ calls' = IF calls < 2 THEN calls + 1 ELSE calls
    /\ UNCHANGED <<parserVars, messages, target_sender, ret, pc>>

-----------------------------------------------------------------------------
(* SpecScore: a new analyzer loads one conversation and scores it, as main *)
(* does; SpecDirect: a new analyzer loads one conversation and its signal   *)
(* methods are called directly, in any order and any number of times        *)

InitScore ==
    /\ ParserIdle
    /\ messages \in ScoreInputs
    /\ target_sender \in Targets
    /\ df = NoFrame
    /\ engagement_signals = NewSignals
    /\ results = NoResults
    /\ ret = NoReturn
    /\ calls = 0
    /\ pc = "new"

NextScore ==
    \/ LoadMessages
    \/ CalculateOverallInterest

SpecScore == InitScore /\ [][NextScore]_vars

NextDirect ==
    \/ LoadMessages
    \/ AnalyzeResponseTime
    \/ AnalyzeMessageLength
    \/ AnalyzeEmojiUsage
    \/ AnalyzeQuestionAsking
    \/ AnalyzeConversationInitiation
    \/ AnalyzeEnthusiasm
    \/ AnalyzeConsistency
    \/ AnalyzeReciprocity

SpecDirect == InitScore /\ [][NextDirect]_vars

-----------------------------------------------------------------------------
(* Properties of the scoring engine *)

InRange(x) == QLe(I(0), x) /\ QLe(x, I(100))

Scored == results # NoResults

TargetSentNone == TheirRows(df.rows, target_sender) = <<>>
TargetSentAll == df.rows # <<>> /\ YourRows(df.rows, target_sender) = <<>>

\* C1: for every non-empty time-sorted sequence and every target (also one
\* with no messages, or one who sent them all), each signal score an
\* analyze_* function returns and the overall percentage lie in [0, 100].
\* (engagement_signals holds the eight returned scores, unrounded.)
C1_ScoresInRange ==
    Scored =>
        /\ \A k \in SignalKeys : InRange(engagement_signals[k])
        /\ \A k \in SignalKeys : InRange(results.signal_breakdown[k])
        /\ InRange(OverallScore(engagement_signals))
        /\ InRange(results.overall_percentage)

\* C1 witness: a scored conversation whose enthusiasm signal sits at the top
\* of the range, all of its messages being the target's
C1_Witness ==
    /\ Scored
    /\ TargetSentAll
    /\ engagement_signals["enthusiasm"] = I(100)

\* C1 witness of the other case: a scored conversation without any message of
\* the target
C1_WitnessNoTarget == Scored /\ TargetSentNone /\ Len(df.rows) >= 2

\* C2 as stated: analyze_reciprocity returns 0.0 whenever the target sent no
\* message
C2_Original ==
    (ret.fn = "reciprocity" /\ TargetSentNone) => ret.value = I(0)

\* C2 as amended: when the target sent no message analyze_reciprocity returns
\* 50.0 for a sequence of fewer than 2 messages and 20.0 for a longer one
C2_ReciprocityNoTarget ==
    (ret.fn = "reciprocity" /\ TargetSentNone) =>
        ret.value = (IF Len(df.rows) < 2 THEN I(50) ELSE I(20))

C2_Witness ==
    ret.fn = "reciprocity" /\ TargetSentNone /\ Len(df.rows) >= 2

-----------------------------------------------------------------------------
(* SpecLoad: load_messages on lists in any order *)

\* lists of up to MaxLen messages in any time order, with repeated timestamps
LoadInputs ==
    UNION {[1..n -> [text : {"", "awesome!"}, timestamp : {0, 60, 120},
                     sender : Senders]] : n \in 1..MaxLen}

InitLoad ==
    /\ ParserIdle
    /\ messages \in LoadInputs
    /\ target_sender \in Targets
    /\ df = NoFrame
    /\ engagement_signals = NewSignals
    /\ results = NoResults
    /\ ret = NoReturn
    /\ calls = 0
    /\ pc = "new"

NextLoad == LoadMessages

SpecLoad == InitLoad /\ [][NextLoad]_vars

\* p maps each output position to the input position it came from
IndexPermutations(n) ==
    {p \in [1..n -> 1..n] : \A i, j \in 1..n : i # j => p[i] # p[j]}

\* C4 as stated: load_messages returns the input sorted ascending by
\* timestamp, a permutation of the input in which messages with equal
\* timestamps keep their input order.
C4_StableSorted ==
    pc = "loaded" =>
        /\ IsSorted(df.rows)
        /\ Len(df.rows) = Len(messages)
        /\ \E p \in IndexPermutations(Len(messages)) :
              /\ \A i \in 1..Len(messages) : df.rows[i] = messages[p[i]]
              /\ \A i, j \in 1..Len(messages) :
                    (i < j /\ df.rows[i].timestamp = df.rows[j].timestamp)
                        => p[i] < p[j]

\* The part of C4 that holds: the output is sorted ascending by timestamp and
\* is a permutation of the input.
C4_SortedPermutation ==
    pc = "loaded" =>
        /\ IsSorted(df.rows)
        /\ Len(df.rows) = Len(messages)
        /\ \E p \in IndexPermutations(Len(messages)) :
              \A i \in 1..Len(messages) : df.rows[i] = messages[p[i]]

-----------------------------------------------------------------------------
(* SpecHistory: one analyzer scores conversation after conversation *)

HistoryInputs == Conversations({60, 18000}, {"", "awesome!"}, 1, MaxHistoryLen)

InitHistory ==
    /\ ParserIdle
    /\ messages = <<>>
    /\ target_sender = "Sarah"
    /\ df = NoFrame
    /\ engagement_signals = NewSignals
    /\ results = NoResults
    /\ ret = NoReturn
    /\ calls = 0
    /\ pc = "idle"

\* the caller turns to another conversation, keeping its analyzer
NewConversation ==
    /\ pc \in {"idle", "loaded"}
    /\ messages' \in HistoryInputs
    /\ target_sender' \in Targets
    /\ df' = NoFrame
    /\ results' = NoResults
    /\ pc' = "new"
    /\ UNCHANGED <<parserVars, engagement_signals, ret, calls>>

NextHistory ==
    \/ NewConversation
    \/ LoadMessages
    \/ CalculateOverallInterest

SpecHistory == InitHistory /\ [][NextHistory]_vars

\* the frame as load_messages returned it
Pristine(d) == [rows |-> d.rows, has_gap |-> FALSE, time_gap |-> <<>>]

\* what a new MessageAnalyzer returns for the frame and target
FreshResults(d, target) ==
    MakeResults(ComputeSignals(NewSignals, Pristine(d), target),
                WithTimeGap(Pristine(d)), target)

\* C10: for the same sequence and target calculate_overall_interest returns
\* what a new analyzer returns, whatever the analyzer scored before and also
\* on a second call, when the sequence carries time_gap.
C10_HistoryIndependent ==
    Scored =>
        /\ results = FreshResults(df, target_sender)
        /\ engagement_signals = ComputeSignals(NewSignals, Pristine(df), target_sender)

\* C10 witness: an analyzer with earlier calls has scored a sequence that
\* carried time_gap, and a new analyzer would score it differently from zero
C10_Witness ==
    /\ Scored
    /\ calls = 2
    /\ df.has_gap
    /\ results.overall_percentage # I(0)

-----------------------------------------------------------------------------
(* Strings of the parser selector.  A path or a platform hint is a sequence *)
(* of one-character strings, so that lower(), `in` and endswith() are       *)
(* computed on its characters.                                              *)

LowerLetters == <<"a", "b", "c", "d", "e", "f", "g", "h", "i", "j", "k", "l", "m", "n", "o", "p", "q", "r", "s", "t", "u", "v", "w", "x", "y", "z">>
UpperLetters == <<"A", "B", "C", "D", "E", "F", "G", "H", "I", "J", "K", "L", "M", "N", "O", "P", "Q", "R", "S", "T", "U", "V", "W", "X", "Y", "Z">>

\* str.lower() and str.upper() on one character
Lower(c) ==
    IF \E i \in 1..26 : UpperLetters[i] = c
    THEN LowerLetters[CHOOSE i \in 1..26 : UpperLetters[i] = c]
    ELSE c
Upper(c) ==
    IF \E i \in 1..26 : LowerLetters[i] = c
    THEN UpperLetters[CHOOSE i \in 1..26 : LowerLetters[i] = c]
    ELSE c

LowerStr(s) == [i \in 1..Len(s) |-> Lower(s[i])]

\* sub in s
Contains(s, sub) ==
    \E i \in 1..(Len(s) - Len(sub) + 1) : SubSeq(s, i, i + Len(sub) - 1) = sub

\* s.endswith(suffix)
EndsWith(s, suffix) ==
    /\ Len(s) >= Len(suffix)
    /\ SubSeq(s, Len(s) - Len(suffix) + 1, Len(s)) = suffix

\* every spelling of a word in upper and lower case letters
CaseVariants(word) ==
    {[i \in 1..Len(word) |-> IF up[i] THEN Upper(word[i]) ELSE word[i]] :
        up \in [1..Len(word) -> BOOLEAN]}

s_facebook == <<"f", "a", "c", "e", "b", "o", "o", "k">>
s_messenger == <<"m", "e", "s", "s", "e", "n", "g", "e", "r">>
s_instagram == <<"i", "n", "s", "t", "a", "g", "r", "a", "m">>
s_ig == <<"i", "g">>
s_imessage == <<"i", "m", "e", "s", "s", "a", "g", "e">>
s_apple == <<"a", "p", "p", "l", "e">>
s_whatsapp == <<"w", "h", "a", "t", "s", "a", "p", "p">>
KnownSubstrings ==
    {s_facebook, s_messenger, s_instagram, s_ig, s_imessage, s_apple, s_whatsapp}

ext_txt == <<".", "t", "x", "t">>
ext_json == <<".", "j", "s", "o", "n">>
ext_csv == <<".", "c", "s", "v">>

\* platform = None, and a platform given on the command line
NoPlatform == [given |-> FALSE, text |-> <<>>]
Platform(text) == [given |-> TRUE, text |-> text]

\* the truth value of `if platform:`
Truthy(plat) == plat.given /\ plat.text # <<>>

\* json.load(f) succeeds and isinstance(data, dict) and 'messages' in data
PeekSaysFacebook(cont) == cont.kind = "json_object" /\ cont.has_messages

\* get_parser with the hint compared as given, not lowered
get_parser_case_sensitive(path, cont, plat) ==
    LET byFile ==
            IF EndsWith(path, ext_txt) THEN "WhatsAppParser"
            ELSE IF EndsWith(path, ext_json)
                THEN (IF PeekSaysFacebook(cont) THEN "FacebookMessengerParser"
                      ELSE "GenericJSONParser")
            ELSE IF EndsWith(path, ext_csv) THEN "iMessageParser"
            ELSE "GenericJSONParser"
    IN  IF ~Truthy(plat) THEN byFile
        ELSE IF Contains(plat.text, s_facebook) \/ Contains(plat.text, s_messenger)
            THEN "FacebookMessengerParser"
        ELSE IF Contains(plat.text, s_instagram) \/ Contains(plat.text, s_ig)
            THEN "InstagramMessengerParser"
        ELSE IF Contains(plat.text, s_imessage) \/ Contains(plat.text, s_apple)
            THEN "iMessageParser"
        ELSE IF Contains(plat.text, s_whatsapp) THEN "WhatsAppParser"
        ELSE byFile

\* get_parser returning the default parser at once for a hint it does not know
get_parser_default_on_unknown(path, cont, plat) ==
    LET byFile ==
            IF EndsWith(path, ext_txt) THEN "WhatsAppParser"
            ELSE IF EndsWith(path, ext_json)
                THEN (IF PeekSaysFacebook(cont) THEN "FacebookMessengerParser"
                      ELSE "GenericJSONParser")
            ELSE IF EndsWith(path, ext_csv) THEN "iMessageParser"
            ELSE "GenericJSONParser"
        p == LowerStr(plat.text)
    IN  IF ~Truthy(plat) THEN byFile
        ELSE IF Contains(p, s_facebook) \/ Contains(p, s_messenger)
            THEN "FacebookMessengerParser"
        ELSE IF Contains(p, s_instagram) \/ Contains(p, s_ig)
            THEN "InstagramMessengerParser"
        ELSE IF Contains(p, s_imessage) \/ Contains(p, s_apple)
            THEN "iMessageParser"
        ELSE IF Contains(p, s_whatsapp) THEN "WhatsAppParser"
        ELSE "GenericJSONParser"

\* get_parser(file_path, platform): the class of the parser it returns.  It
\* has no raise; the one step that can fail, the peek into a .json file, is
\* inside try/except.
get_parser(path, cont, plat) ==
    LET byFile ==
            IF EndsWith(path, ext_txt) THEN "WhatsAppParser"
            ELSE IF EndsWith(path, ext_json)
                THEN (IF PeekSaysFacebook(cont) THEN "FacebookMessengerParser"
                      ELSE "GenericJSONParser")
            ELSE IF EndsWith(path, ext_csv) THEN "iMessageParser"
            ELSE "GenericJSONParser"
        p == LowerStr(plat.text)
    IN  IF ~Truthy(plat) THEN byFile
        ELSE IF Contains(p, s_facebook) \/ Contains(p, s_messenger)
            THEN "FacebookMessengerParser"
        ELSE IF Contains(p, s_instagram) \/ Contains(p, s_ig)
            THEN "InstagramMessengerParser"
        ELSE IF Contains(p, s_imessage) \/ Contains(p, s_apple)
            THEN "iMessageParser"
        ELSE IF Contains(p, s_whatsapp) THEN "WhatsAppParser"
        ELSE byFile

-----------------------------------------------------------------------------
(* Timestamps of the parsers.  A timestamp string is kept by its shape and  *)
(* its numbers, in the order they stand in the text, and strptime is        *)
(* computed from them.  A datetime is the calendar fields strptime read,    *)
(* the seconds and microseconds since the epoch fromtimestamp was given,    *)
(* or the current time.                                                     *)

\* a timestamp string: shape is "iso_space" (Y-m-d H:M:S), "iso_T"
\* (Y-m-dTH:M:S), "iso_space_frac" (Y-m-d H:M:S.f), "iso_T_fracZ"
\* (Y-m-dTH:M:S.fZ), "slash_hms" (a/b/Y H:M:S), "slash_hm" (a/b/Y H:M) or
\* "other"; f1, f2, f3 are the three numbers of the date as written, ydigits
\* the number of digits of the year
TsStr(shape, f1, f2, f3, ydigits, h, mi, sec, us) ==
    [kind |-> "str", shape |-> shape, f1 |-> f1, f2 |-> f2, f3 |-> f3,
     ydigits |-> ydigits, h |-> h, mi |-> mi, s |-> sec, us |-> us]
\* a JSON number
TsNum(n) ==
    [kind |-> "num", shape |-> "", f1 |-> n, f2 |-> 0, f3 |-> 0,
     ydigits |-> 0, h |-> 0, mi |-> 0, s |-> 0, us |-> 0]
\* a JSON number too large for a datetime, such as 1e20
TsHuge == [TsNum(0) EXCEPT !.shape = "huge"]
\* a JSON null (None)
TsNull == [TsNum(0) EXCEPT !.kind = "null"]
\* the key is not in the entry
TsAbsent == [TsNum(0) EXCEPT !.kind = "absent"]

DateTime(y, mo, d, h, mi, sec, us) ==
    [kind |-> "date", y |-> y, mo |-> mo, d |-> d, h |-> h, mi |-> mi,
     s |-> sec, us |-> us]
\* datetime.now()
Now == [DateTime(0, 0, 0, 0, 0, 0, 0) EXCEPT !.kind = "now"]
\* strptime raised ValueError or TypeError
Fail == [DateTime(0, 0, 0, 0, 0, 0, 0) EXCEPT !.kind = "fail"]
\* the call raised instead of returning a datetime
Raised == [DateTime(0, 0, 0, 0, 0, 0, 0) EXCEPT !.kind = "raised"]

IsLeap(y) == (y % 4 = 0 /\ y % 100 # 0) \/ y % 400 = 0
DaysInMonth(y, mo) ==
    IF mo = 2 THEN (IF IsLeap(y) THEN 29 ELSE 28)
    ELSE IF mo \in {4, 6, 9, 11} THEN 30 ELSE 31

ValidFields(y, ydigits, mo, d, h, mi, sec) ==
    /\ ydigits = 4 /\ y >= 1
    /\ mo \in 1..12
    /\ d >= 1 /\ d <= DaysInMonth(y, mo)
    /\ h \in 0..23 /\ mi \in 0..59 /\ sec \in 0..59

\* the shape of string each format accepts
FormatShape(fmt) ==
    CASE fmt = "%Y-%m-%d %H:%M:%S" -> "iso_space"
      [] fmt = "%Y-%m-%dT%H:%M:%S" -> "iso_T"
      [] fmt = "%Y-%m-%d %H:%M:%S.%f" -> "iso_space_frac"
      [] fmt = "%Y-%m-%dT%H:%M:%S.%fZ" -> "iso_T_fracZ"
      [] fmt = "%m/%d/%Y %H:%M:%S" -> "slash_hms"
      [] fmt = "%d/%m/%Y %H:%M:%S" -> "slash_hms"
      [] fmt = "%m/%d/%Y %H:%M" -> "slash_hm"
      [] fmt = "%d/%m/%Y %H:%M" -> "slash_hm"

\* datetime.strptime(ts, fmt): the datetime, or Fail where it raises
\* ValueError (the text does not fit) or TypeError (ts is not a string)
Strptime(ts, fmt) ==
    IF ts.kind # "str" \/ ts.shape # FormatShape(fmt) THEN Fail
    ELSE
      LET y  == IF fmt \in {"%m/%d/%Y %H:%M:%S", "%d/%m/%Y %H:%M:%S",
                           "%m/%d/%Y %H:%M", "%d/%m/%Y %H:%M"}
                THEN ts.f3 ELSE ts.f1
          mo == IF fmt \in {"%m/%d/%Y %H:%M:%S", "%m/%d/%Y %H:%M"} THEN ts.f1
                ELSE ts.f2
          d  == IF fmt \in {"%m/%d/%Y %H:%M:%S", "%m/%d/%Y %H:%M"} THEN ts.f2
                ELSE IF fmt \in {"%d/%m/%Y %H:%M:%S", "%d/%m/%Y %H:%M"} THEN ts.f1
                ELSE ts.f3
      IN  IF ValidFields(y, ts.ydigits, mo, d, ts.h, ts.mi, ts.s)
          THEN DateTime(y, mo, d, ts.h, ts.mi, ts.s, ts.us)
          ELSE Fail

\* the first format of the list that reads ts, else datetime.now()
RECURSIVE TryFormats(_, _)
TryFormats(ts, formats) ==
    IF formats = <<>> THEN Now
    ELSE IF Strptime(ts, Head(formats)) # Fail THEN Strptime(ts, Head(formats))
    ELSE TryFormats(ts, Tail(formats))

\* datetime.fromtimestamp(x) for x = num / den seconds: the whole seconds and
\* the microseconds since the epoch
FromTimestamp(num, den) ==
    [DateTime(0, 0, 0, 0, 0, num \div den, ((num % den) * 1000000) \div den)
        EXCEPT !.kind = "epoch"]

iMessageFormats ==
    <<"%Y-%m-%d %H:%M:%S", "%Y-%m-%dT%H:%M:%S", "%Y-%m-%d %H:%M:%S.%f",
      "%m/%d/%Y %H:%M:%S", "%d/%m/%Y %H:%M:%S">>

GenericFormats ==
    <<"%Y-%m-%d %H:%M:%S", "%Y-%m-%dT%H:%M:%S", "%Y-%m-%d %H:%M:%S.%f",
      "%Y-%m-%dT%H:%M:%S.%fZ">>

\* iMessageParser._parse_timestamp that lets the last ValueError out
iMessage_parse_timestamp_strict(ts) ==
    IF TryFormats(ts, iMessageFormats) = Now THEN Raised
    ELSE TryFormats(ts, iMessageFormats)

\* iMessageParser._parse_timestamp: a value that is no string makes every
\* strptime raise TypeError, which is caught like ValueError
iMessage_parse_timestamp(ts) == TryFormats(ts, iMessageFormats)

\* GenericJSONParser._parse_timestamp: a number goes to fromtimestamp, outside
\* any try, which raises for a number out of range; anything else is read
\* as str(ts)
Generic_parse_timestamp(ts) ==
    IF ts.kind = "num"
    THEN (IF ts.shape = "huge" THEN Raised ELSE FromTimestamp(ts.f1, 1))
    ELSE TryFormats(ts, GenericFormats)

-----------------------------------------------------------------------------
(* File contents *)

\* a key that is not in a JSON object or CSV row
Missing == "<missing>"

\* what a file holds: kind is "text" (lines of a chat export), "json_array",
\* "json_object" (has_messages tells whether it has a 'messages' key,
\* entries is that array), "csv" (columns is the header, entries the rows),
\* "invalid" (neither JSON nor chat lines) or "unreadable"
Content(kind, has_messages, columns, entries) ==
    [kind |-> kind, has_messages |-> has_messages, columns |-> columns,
     entries |-> entries]
NoContent == Content("none", FALSE, {}, <<>>)

\* what parse returned, or that it raised
Returned(msgs) == [status |-> "ok", error |-> "", messages |-> msgs]
Raises(error) == [status |-> "raised", error |-> error, messages |-> <<>>]
NotParsed == [status |-> "none", error |-> "", messages |-> <<>>]

\* a parsed message: the timestamp is a datetime
Parsed(text, timestamp, sender) ==
    [text |-> text, timestamp |-> timestamp, sender |-> sender]

\* the positions of s whose element satisfies P, in order
RECURSIVE IndexesWhere(_, _, _)
IndexesWhere(P(_), s, i) ==
    IF i > Len(s) THEN <<>>
    ELSE IF P(s[i]) THEN <<i>> \o IndexesWhere(P, s, i + 1)
    ELSE IndexesWhere(P, s, i + 1)

(* Facebook and Instagram *)

\* an entry of the 'messages' array: content, timestamp_ms and sender_name,
\* each possibly not in the entry (then has_* is FALSE)
FbEntry(has_content, cont, has_ts, timestamp_ms, has_sender, sender_name) ==
    [has_content |-> has_content, content |-> cont,
     has_timestamp_ms |-> has_ts, timestamp_ms |-> timestamp_ms,
     has_sender_name |-> has_sender, sender_name |-> sender_name]

\* json.load raises on a file that is not JSON; open raises on one it cannot
\* read
JsonLoadError(cont) ==
    IF cont.kind = "unreadable" THEN "OSError"
    ELSE IF cont.kind \in {"text", "csv", "invalid"} THEN "JSONDecodeError"
    ELSE ""

FbMessage(msg) ==
    Parsed(msg.content, FromTimestamp(msg.timestamp_ms, 1000), msg.sender_name)

\* FacebookMessengerParser.parse keeping the entries without 'content' too
FacebookMessengerParser_parse_all(cont) ==
    IF JsonLoadError(cont) # "" THEN Raises(JsonLoadError(cont))
    ELSE IF ~(cont.kind = "json_object" /\ cont.has_messages) THEN Returned(<<>>)
    ELSE IF \E i \in 1..Len(cont.entries) :
                ~cont.entries[i].has_timestamp_ms \/ ~cont.entries[i].has_sender_name
        THEN Raises("KeyError")
    ELSE Returned([i \in 1..Len(cont.entries) |-> FbMessage(cont.entries[i])])

\* FacebookMessengerParser.parse
FacebookMessengerParser_parse(cont) ==
    IF JsonLoadError(cont) # "" THEN Raises(JsonLoadError(cont))
    \* 'messages' in data: no key of that name, or no such element of a list
    ELSE IF ~(cont.kind = "json_object" /\ cont.has_messages) THEN Returned(<<>>)
    ELSE
      LET kept == IndexesWhere(LAMBDA msg : msg.has_content, cont.entries, 1)
      IN  \* msg['timestamp_ms'] and msg['sender_name'] raise KeyError
          IF \E k \in 1..Len(kept) :
                \/ ~cont.entries[kept[k]].has_timestamp_ms
                \/ ~cont.entries[kept[k]].has_sender_name
          THEN Raises("KeyError")
          ELSE Returned([k \in 1..Len(kept) |-> FbMessage(cont.entries[kept[k]])])

\* InstagramMessengerParser.parse
InstagramMessengerParser_parse(cont) == FacebookMessengerParser_parse(cont)

(* iMessage and generic JSON *)

\* a JSON object of an array, or a row of csv.DictReader: the value of each
\* key the parsers look at, Missing or TsAbsent when the key is not there
Entry(text, message, cont, timestamp, date, time, sender, from, author) ==
    [text |-> text, message |-> message, content |-> cont,
     timestamp |-> timestamp, date |-> date, time |-> time,
     sender |-> sender, from |-> from, author |-> author]

\* dict.get(key, default) for a string value and for a timestamp value; the
\* default of a timestamp is None, which no format reads either
Get(value, default) == IF value = Missing THEN default ELSE value
GetTs(value, default) == IF value.kind = "absent" THEN default ELSE value

\* the message iMessageParser.parse makes of a JSON entry
iMessageJsonMessage(msg) ==
    Parsed(Get(msg.text, ""),
           iMessage_parse_timestamp(msg.timestamp),
           Get(msg.sender, Get(msg.from, "Unknown")))

\* the message iMessageParser.parse makes of a CSV row
iMessageCsvMessage(row) ==
    Parsed(Get(row.text, Get(row.message, "")),
           iMessage_parse_timestamp(GetTs(row.timestamp, row.date)),
           Get(row.sender, Get(row.from, "Unknown")))

\* iterating a JSON object yields its keys, and a str has no get (every
\* modelled object has a key)
IterationError(cont) ==
    IF cont.kind = "json_object" THEN "AttributeError" ELSE ""

\* iMessageParser.parse (a path ending in .csv holds CSV in every modelled
\* file)
iMessageParser_parse(path, cont) ==
    IF EndsWith(path, ext_json) THEN
        IF JsonLoadError(cont) # "" THEN Raises(JsonLoadError(cont))
        ELSE IF IterationError(cont) # "" THEN Raises(IterationError(cont))
        ELSE Returned([i \in 1..Len(cont.entries) |->
                            iMessageJsonMessage(cont.entries[i])])
    ELSE IF EndsWith(path, ext_csv) THEN
        IF cont.kind = "unreadable" THEN Raises("OSError")
        ELSE Returned([i \in 1..Len(cont.entries) |->
                            iMessageCsvMessage(cont.entries[i])])
    ELSE Returned(<<>>)

\* the message GenericJSONParser.parse makes of an entry
GenericMessage(msg) ==
    Parsed(Get(msg.text, Get(msg.message, Get(msg.content, ""))),
           Generic_parse_timestamp(
               GetTs(msg.timestamp, GetTs(msg.date, msg.time))),
           Get(msg.sender, Get(msg.from, Get(msg.author, "Unknown"))))

\* GenericJSONParser.parse.  What fromtimestamp raises for a number out of
\* range (OverflowError, ValueError or OSError) depends on the number and the
\* platform; it is recorded as OverflowError.
GenericJSONParser_parse(cont) ==
    IF JsonLoadError(cont) # "" THEN Raises(JsonLoadError(cont))
    ELSE IF IterationError(cont) # "" THEN Raises(IterationError(cont))
    ELSE IF \E i \in 1..Len(cont.entries) :
                GenericMessage(cont.entries[i]).timestamp = Raised
        THEN Raises("OverflowError")
    ELSE Returned([i \in 1..Len(cont.entries) |-> GenericMessage(cont.entries[i])])

(* WhatsApp *)

\* a line of the export: whether the pattern matches it, and then the date
\* and time it captured (a "slash_hm" or "slash_hms" timestamp string), the
\* sender and the text
Line(matched, ts, sender, text) ==
    [matched |-> matched, ts |-> ts, sender |-> sender, text |-> text]

\* str.strip()
Strip(t) == IF t = "ok " THEN "ok" ELSE t

\* the timestamp of a matching line: day/month/year with the time form the
\* line has, then month/day/year with hours and minutes only; Fail where the
\* code reaches continue
WhatsAppTimestamp(ts) ==
    LET primary == IF ts.shape = "slash_hm"
                   THEN Strptime(ts, "%d/%m/%Y %H:%M")
                   ELSE Strptime(ts, "%d/%m/%Y %H:%M:%S")
    IN  IF primary # Fail THEN primary
        ELSE Strptime(ts, "%m/%d/%Y %H:%M")

\* WhatsAppParser.parse (no line of a file that is not a chat export matches
\* the pattern)
WhatsAppParser_parse(cont) ==
    IF cont.kind = "unreadable" THEN Raises("OSError")
    ELSE
      LET lines == IF cont.kind = "text" THEN cont.entries ELSE <<>>
          kept == IndexesWhere(
                    LAMBDA l : l.matched /\ WhatsAppTimestamp(l.ts) # Fail,
                    lines, 1)
      IN  Returned([k \in 1..Len(kept) |->
                      Parsed(Strip(lines[kept[k]].text),
                             WhatsAppTimestamp(lines[kept[k]].ts),
                             Strip(lines[kept[k]].sender))])

-----------------------------------------------------------------------------
(* The modelled files *)

\* most entries, lines or rows of a file
MaxEntries == 2

SeqsUpTo(S, n) == UNION {[1..k -> S] : k \in 0..n}

path_txt == <<"c", "h", "a", "t", ".", "t", "x", "t">>
path_json == <<"e", "x", "p", "o", "r", "t", ".", "j", "s", "o", "n">>
path_csv == <<"e", "x", "p", "o", "r", "t", ".", "c", "s", "v">>
path_dat == <<"d", "a", "t", "a", ".", "d", "a", "t">>
path_TXT == <<"C", "H", "A", "T", ".", "T", "X", "T">>

\* timestamp strings: 2024-01-05 10:00:00, 2024-01-05T10:00:00,
\* 2024-01-05T10:00:00.5Z, 12/25/2024 10:30:45, 01/02/2024 10:30:45 and
\* "yesterday"
ts_iso == TsStr("iso_space", 2024, 1, 5, 4, 10, 0, 0, 0)
ts_isoT == TsStr("iso_T", 2024, 1, 5, 4, 10, 0, 0, 0)
ts_fracZ == TsStr("iso_T_fracZ", 2024, 1, 5, 4, 10, 0, 0, 500000)
ts_slash_us == TsStr("slash_hms", 12, 25, 2024, 4, 10, 30, 45, 0)
ts_slash_both == TsStr("slash_hms", 1, 2, 2024, 4, 10, 30, 45, 0)
ts_words == TsStr("other", 0, 0, 0, 0, 0, 0, 0, 0)
\* an empty CSV cell
ts_empty == TsStr("other", 0, 0, 0, 0, 0, 0, 0, 1)

\* JSON entries: the documented keys; the second alias of each key only; the
\* third alias with a numeric time; an unreadable timestamp and no sender;
\* both aliases at once; a number out of range; a null timestamp beside a
\* date; a fractional UTC timestamp; a month-first date
JsonEntries ==
    {Entry("hi", Missing, Missing, ts_iso, TsAbsent, TsAbsent, "Sarah", Missing, Missing),
     Entry(Missing, "hello", Missing, TsAbsent, ts_isoT, TsAbsent, Missing, "You", Missing),
     Entry(Missing, Missing, "yo", TsAbsent, TsAbsent, TsNum(1700), Missing, Missing, "Sarah"),
     Entry("hi", Missing, Missing, ts_words, TsAbsent, TsAbsent, Missing, Missing, Missing),
     Entry("a", "b", Missing, ts_slash_both, ts_iso, TsAbsent, "Sarah", "You", Missing),
     Entry("hi", Missing, Missing, TsHuge, TsAbsent, TsAbsent, "Sarah", Missing, Missing),
     Entry("hi", Missing, Missing, TsNull, ts_iso, TsAbsent, "You", Missing, Missing),
     Entry("hi", Missing, Missing, ts_fracZ, TsAbsent, TsAbsent, "Sarah", Missing, Missing),
     Entry("hi", Missing, Missing, ts_slash_us, TsAbsent, TsAbsent, "You", Missing, Missing)}

JsonArrays == {Content("json_array", FALSE, {}, e) : e \in SeqsUpTo(JsonEntries, MaxEntries)}

\* the row csv.DictReader makes under a header: a cell for each column of the
\* header (an empty one where the catalogue entry has no value), no other key
CsvRow(columns, e) ==
    LET str(k, v) == IF k \notin columns THEN Missing
                     ELSE IF v = Missing THEN "" ELSE v
        ts(k, v)  == IF k \notin columns THEN TsAbsent
                     ELSE IF v.kind # "str" THEN ts_empty ELSE v
    IN  Entry(str("text", e.text), str("message", e.message), Missing,
              ts("timestamp", e.timestamp), ts("date", e.date), TsAbsent,
              str("sender", e.sender), str("from", e.from), Missing)

CsvHeaders ==
    {{"text", "timestamp", "sender"}, {"message", "date", "from"},
     {"text", "message", "timestamp", "date", "sender", "from"},
     {"text", "timestamp"}}

CsvBaseRows ==
    {Entry("hi", "hey", Missing, ts_iso, ts_isoT, TsAbsent, "Sarah", "You", Missing),
     Entry("a", "b", Missing, ts_words, ts_slash_us, TsAbsent, "You", "Sarah", Missing)}

CsvFiles ==
    UNION {{Content("csv", FALSE, h, r) :
                r \in SeqsUpTo({CsvRow(h, e) : e \in CsvBaseRows}, MaxEntries)} :
           h \in CsvHeaders}

\* entries of a Facebook export: a text message; a photo (no content); an
\* empty text; a text without timestamp_ms; a reaction without any of the
\* three keys
FbEntries ==
    {FbEntry(TRUE, "hi", TRUE, 1500, TRUE, "Sarah"),
     FbEntry(FALSE, "", TRUE, 61001, TRUE, "You"),
     FbEntry(TRUE, "", TRUE, 0, TRUE, "You"),
     FbEntry(TRUE, "yo", FALSE, 0, TRUE, "Sarah"),
     FbEntry(FALSE, "", FALSE, 0, FALSE, "")}

JsonObjects ==
    {Content("json_object", TRUE, {}, e) : e \in SeqsUpTo(FbEntries, MaxEntries)}
        \cup {Content("json_object", FALSE, {}, <<>>)}

\* lines of a WhatsApp export:
\*   [05/01/2024, 10:30:45] Sarah: hi      05/01/2024, 10:30 - You: ok
\*   12/25/2024, 10:30 - Sarah: hi         [12/25/2024, 10:30:45] Sarah: hi
\*   31/31/2024, 10:30 - You: hi           05/01/24, 10:30 - You: hi
\*   and a line of text that continues a message
WhatsAppLines ==
    {Line(TRUE, TsStr("slash_hms", 5, 1, 2024, 4, 10, 30, 45, 0), "Sarah", "hi"),
     Line(TRUE, TsStr("slash_hm", 5, 1, 2024, 4, 10, 30, 0, 0), "You", "ok "),
     Line(TRUE, TsStr("slash_hm", 12, 25, 2024, 4, 10, 30, 0, 0), "Sarah", "hi"),
     Line(TRUE, TsStr("slash_hms", 12, 25, 2024, 4, 10, 30, 45, 0), "Sarah", "hi"),
     Line(TRUE, TsStr("slash_hm", 31, 31, 2024, 4, 10, 30, 0, 0), "You", "hi"),
     Line(TRUE, TsStr("slash_hm", 5, 1, 24, 2, 10, 30, 0, 0), "You", "hi"),
     Line(FALSE, ts_words, "", "and another thing")}

TextFiles == {Content("text", FALSE, {}, l) : l \in SeqsUpTo(WhatsAppLines, MaxEntries)}

InvalidFile == Content("invalid", FALSE, {}, <<>>)
UnreadableFile == Content("unreadable", FALSE, {}, <<>>)

\* the files the parsers are run on: each content under the extension of its
\* format, and JSON arrays under an unknown extension too
ParseFiles ==
    ({path_txt} \X TextFiles)
        \cup ({path_json, path_dat} \X JsonArrays)
        \cup ({path_json} \X (JsonObjects \cup {InvalidFile}))
        \cup ({path_csv} \X CsvFiles)

\* the files the selector is run on: every path with a sample of each content
SelectFiles ==
    {path_txt, path_json, path_csv, path_dat, path_TXT} \X
        {Content("text", FALSE, {}, <<>>),
         Content("json_array", FALSE, {}, <<>>),
         Content("json_object", TRUE, {}, <<>>),
         Content("json_object", FALSE, {}, <<>>),
         Content("csv", FALSE, {"text", "timestamp"}, <<>>),
         InvalidFile, UnreadableFile}

\* hints: the platform names of the help text and others
ParseHints ==
    {NoPlatform, Platform(s_whatsapp), Platform(s_facebook),
     Platform(s_instagram), Platform(s_imessage),
     Platform(<<"t", "e", "l", "e", "g", "r", "a", "m">>)}

SelectHints ==
    {NoPlatform, Platform(<<>>)}
        \cup {Platform(v) : v \in CaseVariants(s_whatsapp)}
        \cup {Platform(h) : h \in
                {s_facebook, <<"M", "e", "s", "s", "e", "n", "g", "e", "r">>, <<"I", "n", "s", "t", "a", "g", "r", "a", "m">>, <<"I", "G">>,
                 <<"i", "M", "e", "s", "s", "a", "g", "e">>, <<"A", "p", "p", "l", "e">>, <<"t", "e", "l", "e", "g", "r", "a", "m">>, <<"S", "i", "g", "n", "a", "l">>,
                 <<"s", "m", "s">>, <<"W", "e", "C", "h", "a", "t">>, <<"w", "h", "a", "t", "s", " ", "a", "p", "p">>}}

-----------------------------------------------------------------------------
(* The parser operations *)

AnalyzerIdle ==
    /\ messages = <<>>
    /\ df = NoFrame
    /\ target_sender = "Sarah"
    /\ engagement_signals = NewSignals
    /\ results = NoResults
    /\ ret = NoReturn
    /\ calls = 0

\* parser = get_parser(file_path, platform)
GetParser ==
    /\ pc = "start"
    /\ parser' = get_parser(file_path, content, platform)
    /\ pc' = "selected"
    /\ UNCHANGED <<file_path, content, platform, parse_result, analyzerVars>>

\* messages = parser.parse(file_path), for a parser of class cls
ParseWith(cls, result) ==
    /\ pc = "selected"
    /\ parser = cls
    /\ parse_result' = result
    /\ pc' = IF result.status = "ok" THEN "parsed" ELSE "failed"
    /\ UNCHANGED <<file_path, content, platform, parser, analyzerVars>>

ParseFacebook ==
    ParseWith("FacebookMessengerParser", FacebookMessengerParser_parse(content))
ParseInstagram ==
    ParseWith("InstagramMessengerParser", InstagramMessengerParser_parse(content))
ParseiMessage ==
    ParseWith("iMessageParser", iMessageParser_parse(file_path, content))
ParseWhatsApp ==
    ParseWith("WhatsAppParser", WhatsAppParser_parse(content))
ParseGeneric ==
    ParseWith("GenericJSONParser", GenericJSONParser_parse(content))

InitParserWith(files, hints) ==
    /\ \E f \in files : file_path = f[1] /\ content = f[2]
    /\ platform \in hints
    /\ parser = "none"
    /\ parse_result = NotParsed
    /\ pc = "start"
    /\ AnalyzerIdle

(* SpecSelect: get_parser on every path, sample content and hint *)
InitSelect == InitParserWith(SelectFiles, SelectHints)
NextSelect == GetParser
SpecSelect == InitSelect /\ [][NextSelect]_vars

(* SpecParse: get_parser, then parse by the parser it returned *)
InitParse == InitParserWith(ParseFiles, ParseHints)
NextParse ==
    \/ GetParser
    \/ ParseFacebook
    \/ ParseInstagram
    \/ ParseiMessage
    \/ ParseWhatsApp
    \/ ParseGeneric
SpecParse == InitParse /\ [][NextParse]_vars

-----------------------------------------------------------------------------
(* Properties of the selector *)

Selected == pc = "selected"

\* the hint is the word whatsapp in some letter case
WhatsAppHint == platform.given /\ LowerStr(platform.text) = s_whatsapp

\* C7: get_parser with the hint "whatsapp", in any letter case, returns the
\* WhatsApp parser whatever the file path and the file's content; with no
\* hint and a path ending in .txt it returns the WhatsApp parser too.
C7_WhatsAppSelected ==
    (Selected /\ (WhatsAppHint \/ (~platform.given /\ EndsWith(file_path, ext_txt))))
        => parser = "WhatsAppParser"

\* the hint WhatsApp in mixed case, on a .json file that is a Facebook export:
\* the hint decides, not the file
C7_Witness ==
    /\ Selected
    /\ WhatsAppHint /\ platform.text # s_whatsapp
    /\ file_path = path_json
    /\ content.kind = "json_object" /\ content.has_messages
    /\ parser = "WhatsAppParser"

\* the hint holds none of the substrings get_parser knows, in any letter case
UnknownHint ==
    /\ platform.given
    /\ \A k \in KnownSubstrings : ~Contains(LowerStr(platform.text), k)

\* the table of the extensions
ParserOfExtension ==
    IF EndsWith(file_path, ext_txt) THEN "WhatsAppParser"
    ELSE IF EndsWith(file_path, ext_csv) THEN "iMessageParser"
    ELSE IF EndsWith(file_path, ext_json)
              /\ content.kind = "json_object" /\ content.has_messages
        THEN "FacebookMessengerParser"
    ELSE "GenericJSONParser"

\* C8: for a hint that holds none of the known substrings get_parser returns
\* a parser (it does not raise), the one the file alone decides: .txt gives
\* WhatsApp, .csv iMessage, .json Facebook when the file is a JSON object with
\* a 'messages' key and Generic JSON otherwise (also when the file cannot be
\* read or is not JSON), any other extension Generic JSON.
C8_UnknownHintByExtension ==
    (Selected /\ UnknownHint) => parser = ParserOfExtension

\* the hint telegram on a .json file that cannot be read
C8_Witness ==
    /\ Selected
    /\ UnknownHint /\ Len(platform.text) > 0
    /\ file_path = path_json
    /\ content.kind = "unreadable"
    /\ parser = "GenericJSONParser"

-----------------------------------------------------------------------------
(* Properties of the parsers *)

\* parse was called, and returned or raised
ParseDone == pc \in {"parsed", "failed"}

\* the number of elements of s that satisfy P
CountWhere(P(_), s) == Len(IndexesWhere(P, s, 1))

(* Facebook and Instagram *)

FacebookLike == parser \in {"FacebookMessengerParser", "InstagramMessengerParser"}

\* a Facebook export as the format has it: an object with a 'messages' array
\* whose entries with 'content' have 'timestamp_ms' and 'sender_name'; an
\* entry without 'content' may lack them
FacebookExport ==
    /\ content.kind = "json_object" /\ content.has_messages
    /\ \A i \in 1..Len(content.entries) :
          content.entries[i].has_content =>
              /\ content.entries[i].has_timestamp_ms
              /\ content.entries[i].has_sender_name

\* the i-th message of the output is made of the k-th entry of the input
FromFbEntry(i, k) ==
    LET m == parse_result.messages[i]
        e == content.entries[k]
    IN  /\ e.has_content
        /\ m.text = e.content
        /\ m.sender = e.sender_name
        /\ m.timestamp.kind = "epoch"
        /\ m.timestamp.s * 1000 + m.timestamp.us \div 1000 = e.timestamp_ms
        /\ m.timestamp.us % 1000 = 0

\* C9: on a Facebook export the Facebook parser, and the Instagram parser
\* that delegates to it, return exactly the entries of 'messages' that have
\* 'content', in input order: as many messages as there are such entries,
\* the i-th message made of the i-th such entry with text = content, sender =
\* sender_name and timestamp = timestamp_ms / 1000 seconds since the epoch.
C9_FacebookKeepsContentEntries ==
    (ParseDone /\ FacebookLike /\ FacebookExport) =>
        /\ parse_result.status = "ok"
        /\ Len(parse_result.messages) =
              CountWhere(LAMBDA e : e.has_content, content.entries)
        /\ \A i \in 1..Len(parse_result.messages) :
              \E k \in i..Len(content.entries) :
                  /\ FromFbEntry(i, k)
                  /\ CountWhere(LAMBDA e : e.has_content,
                                SubSeq(content.entries, 1, k)) = i

\* an export of a photo followed by a text message: one message comes out
C9_Witness ==
    /\ pc = "parsed" /\ FacebookLike /\ FacebookExport
    /\ Len(content.entries) = 2
    /\ ~content.entries[1].has_content
    /\ content.entries[2].has_content
    /\ Len(parse_result.messages) = 1
    /\ parse_result.messages[1].sender = "Sarah"

(* Timestamps that cannot be read *)

\* no format of the list reads ts
Unreadable(ts, formats) ==
    \A i \in 1..Len(formats) : Strptime(ts, formats[i]) = Fail

\* the formats WhatsAppParser.parse tries on a line whose time has this shape
WhatsAppFormats(shape) ==
    IF shape = "slash_hm" THEN <<"%d/%m/%Y %H:%M", "%m/%d/%Y %H:%M">>
    ELSE <<"%d/%m/%Y %H:%M:%S", "%m/%d/%Y %H:%M">>

\* the input of each parser that is well formed but for its timestamps
iMessageJsonInput ==
    parser = "iMessageParser" /\ EndsWith(file_path, ext_json)
        /\ content.kind = "json_array"
iMessageCsvInput ==
    parser = "iMessageParser" /\ EndsWith(file_path, ext_csv)
        /\ content.kind = "csv"
GenericInput == parser = "GenericJSONParser" /\ content.kind = "json_array"
WhatsAppInput == parser = "WhatsAppParser" /\ content.kind = "text"

\* the value each parser takes for the timestamp of an entry
iMessageJsonTs(e) == e.timestamp
iMessageCsvTs(e) == GetTs(e.timestamp, e.date)
GenericTs(e) == GetTs(e.timestamp, GetTs(e.date, e.time))

\* every entry came out, in order, those with an unreadable timestamp at the
\* current time
AllEmitted(ts(_), formats) ==
    /\ parse_result.status = "ok"
    /\ Len(parse_result.messages) = Len(content.entries)
    /\ \A i \in 1..Len(content.entries) :
          (ts(content.entries[i]).kind # "num"
                /\ Unreadable(ts(content.entries[i]), formats))
              => parse_result.messages[i].timestamp = Now

\* every matching line came out, in order, those with an unreadable date at
\* the current time
AllLinesEmitted ==
    LET kept == IndexesWhere(LAMBDA l : l.matched, content.entries, 1)
    IN  /\ parse_result.status = "ok"
        /\ Len(parse_result.messages) = Len(kept)
        /\ \A k \in 1..Len(kept) :
              Unreadable(content.entries[kept[k]].ts,
                         WhatsAppFormats(content.entries[kept[k]].ts.shape))
                  => parse_result.messages[k].timestamp = Now

\* C3 as stated: in the iMessage, WhatsApp and Generic JSON parsers an entry
\* or line whose timestamp cannot be read is still in the output, at the
\* current time: it is not dropped and does not abort the parse, so that the
\* output is as long as the input has well-formed entries
C3_Original ==
    ParseDone =>
        /\ iMessageJsonInput => AllEmitted(iMessageJsonTs, iMessageFormats)
        /\ iMessageCsvInput => AllEmitted(iMessageCsvTs, iMessageFormats)
        /\ GenericInput => AllEmitted(GenericTs, GenericFormats)
        /\ WhatsAppInput => AllLinesEmitted

\* a numeric timestamp that datetime.fromtimestamp cannot convert
OutOfRange(ts) == ts.kind = "num" /\ ts.shape = "huge"

\* C3 as amended: the iMessage parser (JSON and CSV) emits every entry, one
\* whose timestamp is missing, null, a number or a string in none of its
\* formats at the current time; the Generic JSON parser does the same for a
\* timestamp that is missing, null or a string in none of its formats, but a
\* numeric timestamp out of the range of datetime aborts its parse; the
\* WhatsApp parser drops a matching line whose date and time none of its
\* formats reads, and goes on: it emits the other matching lines, none at
\* the current time.
C3_UnreadableTimestamps ==
    ParseDone =>
        /\ iMessageJsonInput =>
              /\ AllEmitted(iMessageJsonTs, iMessageFormats)
              /\ \A i \in 1..Len(content.entries) :
                    content.entries[i].timestamp.kind = "num"
                        => parse_result.messages[i].timestamp = Now
        /\ iMessageCsvInput => AllEmitted(iMessageCsvTs, iMessageFormats)
        /\ (GenericInput /\ \A i \in 1..Len(content.entries) :
                                ~OutOfRange(GenericTs(content.entries[i])))
              => AllEmitted(GenericTs, GenericFormats)
        /\ (GenericInput /\ \E i \in 1..Len(content.entries) :
                                OutOfRange(GenericTs(content.entries[i])))
              => parse_result.status = "raised"
        /\ WhatsAppInput =>
              /\ parse_result.status = "ok"
              /\ Len(parse_result.messages) =
                    CountWhere(LAMBDA l : l.matched
                                  /\ ~Unreadable(l.ts, WhatsAppFormats(l.ts.shape)),
                               content.entries)
              /\ \A i \in 1..Len(parse_result.messages) :
                    parse_result.messages[i].timestamp.kind = "date"

\* an iMessage JSON export of two entries, the second with the timestamp
\* "yesterday": both come out, the second at the current time
C3_Witness ==
    /\ pc = "parsed" /\ iMessageJsonInput
    /\ Len(content.entries) = 2
    /\ content.entries[1].timestamp = ts_iso
    /\ content.entries[2].timestamp = ts_words
    /\ Len(parse_result.messages) = 2
    /\ parse_result.messages[1].timestamp.kind = "date"
    /\ parse_result.messages[2].timestamp = Now

(* Aliases of the iMessage parser *)

\* the first of two keys that is in the entry, else the default
FirstPresent(first, second, default) ==
    IF first # Missing THEN first ELSE IF second # Missing THEN second ELSE default
FirstPresentTs(first, second) == IF first.kind # "absent" THEN first ELSE second

\* the i-th message of the output has the text, the timestamp and the sender
\* of the i-th entry, each under the first of its aliases that the entry has
AliasesResolved(i) ==
    LET e == content.entries[i]
        m == parse_result.messages[i]
        ts == FirstPresentTs(e.timestamp, e.date)
    IN  /\ m.text = FirstPresent(e.text, e.message, "")
        /\ m.sender = FirstPresent(e.sender, e.from, "Unknown")
        /\ ~Unreadable(ts, iMessageFormats)
              => \E k \in 1..Len(iMessageFormats) :
                    /\ m.timestamp = Strptime(ts, iMessageFormats[k])
                    /\ m.timestamp # Fail

\* C5 as stated: the iMessage parser resolves the aliases alike for JSON and
\* for CSV input: text is 'text' or else 'message', the timestamp 'timestamp'
\* or else 'date', the sender 'sender' or else 'from' or else "Unknown"; a
\* JSON entry that has only 'message' and 'date' gives that text and date
C5_AliasesInBothFormats ==
    (pc = "parsed" /\ (iMessageJsonInput \/ iMessageCsvInput)) =>
        /\ Len(parse_result.messages) = Len(content.entries)
        /\ \A i \in 1..Len(content.entries) : AliasesResolved(i)

(* Dates of the WhatsApp parser *)

\* the date and time of a line read as day/month/year, or month/day/year
\* when that fails, with the form of time the line has
DayFirstThenMonthFirst(ts) ==
    LET hm == ts.shape = "slash_hm"
        dmy == Strptime(ts, IF hm THEN "%d/%m/%Y %H:%M" ELSE "%d/%m/%Y %H:%M:%S")
        mdy == Strptime(ts, IF hm THEN "%m/%d/%Y %H:%M" ELSE "%m/%d/%Y %H:%M:%S")
    IN  IF dmy # Fail THEN dmy ELSE mdy

\* C6 as stated: of every line that matches the pattern, with hours and
\* minutes or with seconds too, the WhatsApp parser reads the date as
\* day/month/year and, when that fails, as month/day/year; a line whose date
\* is valid only as month/day/year comes out with that date
C6_MonthFirstFallback ==
    (pc = "parsed" /\ WhatsAppInput) =>
        LET kept == IndexesWhere(
                      LAMBDA l : l.matched /\ DayFirstThenMonthFirst(l.ts) # Fail,
                      content.entries, 1)
        IN  /\ Len(parse_result.messages) = Len(kept)
            /\ \A k \in 1..Len(kept) :
                  k <= Len(parse_result.messages) =>
                      parse_result.messages[k].timestamp =
                          DayFirstThenMonthFirst(content.entries[kept[k]].ts)

-----------------------------------------------------------------------------
(* The main run: get_parser, parse, the test for no messages, load_messages *)
(* and calculate_overall_interest                                           *)

\* pd.to_datetime of a parser's datetime, as whole seconds since 1970-01-01
\* 00:00:00 (every file of the main run has whole-second timestamps)
LeapDaysUpTo(y) == (y \div 4) - (y \div 100) + (y \div 400)
DaysBeforeYear(y) == 365 * (y - 1970) + LeapDaysUpTo(y - 1) - LeapDaysUpTo(1969)
DaysBeforeMonth(y, mo) ==
    LET F[k \in 1..12] == IF k = 1 THEN 0 ELSE F[k - 1] + DaysInMonth(y, k - 1)
    IN  F[mo]
\* the time of the run, for datetime.now(): 2025-01-01 00:00:00
NowSeconds == DaysBeforeYear(2025) * SecondsPerDay
ToSeconds(dt) ==
    CASE dt.kind = "date" ->
            (DaysBeforeYear(dt.y) + DaysBeforeMonth(dt.y, dt.mo) + dt.d - 1)
                * SecondsPerDay + dt.h * 3600 + dt.mi * 60 + dt.s
      [] dt.kind = "epoch" -> dt.s
      [] OTHER -> NowSeconds

\* the list main hands to load_messages
ToAnalyzer(msgs) ==
    [i \in 1..Len(msgs) |->
        Message(msgs[i].text, ToSeconds(msgs[i].timestamp), msgs[i].sender)]

\* `if not messages:` taking every list for a non-empty one
HasMessagesUnchecked(msgs) == TRUE

\* the negation of `not messages`
HasMessages(msgs) == msgs # <<>>

\* files of the main run: chat exports of 10:30, 10:32 and 16:00 of 5 January
\* 2024, a line with a two-digit year and a continuation line; JSON arrays;
\* Facebook exports with a photo; CSV exports; a file that is not JSON
MainLines ==
    {Line(TRUE, TsStr("slash_hm", 5, 1, 2024, 4, 10, 30, 0, 0), "You", "hi"),
     Line(TRUE, TsStr("slash_hm", 5, 1, 2024, 4, 10, 32, 0, 0), "Sarah", "awesome!"),
     Line(TRUE, TsStr("slash_hms", 5, 1, 2024, 4, 16, 0, 0, 0), "Sarah", "terrible day?"),
     Line(TRUE, TsStr("slash_hm", 5, 1, 24, 2, 10, 30, 0, 0), "You", "hi"),
     Line(FALSE, ts_words, "", "and another thing")}

MainJsonEntries ==
    {Entry("hi", Missing, Missing, ts_iso, TsAbsent, TsAbsent, "You", Missing, Missing),
     Entry("awesome!", Missing, Missing, ts_isoT, TsAbsent, TsAbsent, "Sarah", Missing, Missing),
     Entry(Missing, "hi", Missing, TsAbsent, TsNum(1704448920), TsAbsent, Missing, "Sarah", Missing)}

MainFbEntries ==
    {FbEntry(TRUE, "hi", TRUE, 60000, TRUE, "You"),
     FbEntry(TRUE, "awesome!", TRUE, 180000, TRUE, "Sarah"),
     FbEntry(FALSE, "", TRUE, 240000, TRUE, "Sarah")}

MainFiles ==
    ({path_txt} \X {Content("text", FALSE, {}, l) : l \in SeqsUpTo(MainLines, MaxEntries)})
        \cup ({path_json} \X
                {Content("json_array", FALSE, {}, e) :
                    e \in SeqsUpTo(MainJsonEntries, MaxEntries)})
        \cup ({path_json} \X
                {Content("json_object", TRUE, {}, e) :
                    e \in SeqsUpTo(MainFbEntries, MaxEntries)})
        \cup ({path_csv} \X
                {Content("csv", FALSE, {"text", "timestamp", "sender"}, r) :
                    r \in SeqsUpTo({CsvRow({"text", "timestamp", "sender"}, e) :
                                        e \in MainJsonEntries}, MaxEntries)})
        \cup {<<path_json, InvalidFile>>}

MainHints ==
    {NoPlatform, Platform(s_whatsapp), Platform(s_imessage), Platform(s_instagram)}

\* `if not messages:` ... sys.exit(1)
MainNoMessages ==
    /\ pc = "parsed"
    /\ ~HasMessages(parse_result.messages)
    /\ pc' = "no_messages"
    /\ UNCHANGED <<parserVars, analyzerVars>>

\* analyzer = MessageAnalyzer(); df = analyzer.load_messages(messages)
MainLoad ==
    /\ pc = "parsed"
    /\ HasMessages(parse_result.messages)
    /\ messages' = ToAnalyzer(parse_result.messages)
    /\ df' \in load_messages(messages')
    /\ pc' = "loaded"
    /\ UNCHANGED <<parserVars, target_sender, engagement_signals, results,
                   ret, calls>>

\* results = analyzer.calculate_overall_interest(df, target_sender)
MainScore ==
    /\ calls = 0
    /\ CalculateOverallInterest

\* `except Exception` ... sys.exit(1)
MainError ==
    /\ pc = "failed"
    /\ pc' = "error"
    /\ UNCHANGED <<parserVars, analyzerVars>>

InitMain ==
    /\ \E f \in MainFiles : file_path = f[1] /\ content = f[2]
    /\ platform \in MainHints
    /\ parser = "none"
    /\ parse_result = NotParsed
    /\ pc = "start"
    /\ messages = <<>>
    /\ df = NoFrame
    /\ target_sender \in Targets
    /\ engagement_signals = NewSignals
    /\ results = NoResults
    /\ ret = NoReturn
    /\ calls = 0

NextMain ==
    \/ GetParser
    \/ ParseFacebook
    \/ ParseInstagram
    \/ ParseiMessage
    \/ ParseWhatsApp
    \/ ParseGeneric
    \/ MainNoMessages
    \/ MainLoad
    \/ MainScore
    \/ MainError

SpecMain == InitMain /\ [][NextMain]_vars

\* C11: in the main run, when the parser returns no message the run ends
\* with the "no messages" failure and neither load_messages nor any signal
\* computation is invoked; load_messages and calculate_overall_interest are
\* reached with a non-empty sequence only.
C11_NoMessagesNoAnalysis ==
    /\ (pc = "no_messages") =>
          /\ parse_result.status = "ok" /\ parse_result.messages = <<>>
    /\ (ParseDone /\ parse_result.messages = <<>>) \/ pc \in {"no_messages", "error"}
          => /\ df = NoFrame
             /\ engagement_signals = NewSignals
             /\ results = NoResults
    /\ (df # NoFrame \/ results # NoResults) =>
          /\ Len(parse_result.messages) >= 1
          /\ Len(df.rows) = Len(parse_result.messages)

\* a chat export whose only message line has a two-digit year: the parser
\* returns no message and the run ends there
C11_Witness ==
    /\ pc = "no_messages"
    /\ parser = "WhatsAppParser"
    /\ Len(content.entries) >= 1
    /\ \A i \in 1..Len(content.entries) : content.entries[i].matched
    /\ df = NoFrame /\ results = NoResults

-----------------------------------------------------------------------------
(* Properties of the result *)

\* the band of a percentage, top-down with inclusive lower bounds
Band(percentage) ==
    IF QGe(percentage, I(80)) THEN "Strong interest - Very positive signs!"
    ELSE IF QGe(percentage, I(65)) THEN "Good interest - Looking promising"
    ELSE IF QGe(percentage, I(50)) THEN "Moderate interest - Could go either way"
    ELSE IF QGe(percentage, I(35)) THEN "Low interest - Not looking great"
    ELSE "Minimal interest - Might want to move on"

\* C12 as stated: in every result the interpretation is the band of the
\* reported overall_percentage (80 and more "Strong interest", 65 and more
\* "Good interest", 50 and more "Moderate interest", 35 and more "Low
\* interest", else "Minimal interest"): a result that reports 80.0 is
\* labelled "Strong interest"
C12_BandOfReported ==
    Scored => results.interpretation = Band(results.overall_percentage)

-----------------------------------------------------------------------------
(* Properties of the response-time signal *)

\* the average reply delay of the loaded sequence, in minutes
AvgResponse == MeanQ(ResponseTimes(df.rows, target_sender))
HasResponse == ResponseTimes(df.rows, target_sender) # <<>>

\* the line through (m0, s0) and (m1, s1), at m
LineThrough(m0, s0, m1, s1, m) ==
    QAdd(I(s0), QMul(QSub(m, I(m0)), Q(s1 - s0, m1 - m0)))

\* the stated mapping: each segment is the line between its endpoints
StatedResponseScore(m) ==
    IF QLt(m, I(5)) THEN I(100)
    ELSE IF QLt(m, I(30)) THEN LineThrough(5, 100, 30, 80, m)
    ELSE IF QLt(m, I(60)) THEN LineThrough(30, 80, 60, 60, m)
    ELSE IF QLt(m, I(180)) THEN LineThrough(60, 60, 180, 40, m)
    ELSE QMax(I(20), QSub(I(40), QDiv(QSub(m, I(180)), I(60))))

\* C13 as stated: the response-time score is the stated piecewise mapping of
\* the average reply minutes, each linear segment reaching its endpoints (100
\* below 5 minutes, 100 down to 80 over 5-30, 80 down to 60 over 30-60, 60
\* down to 40 over 60-180, max(20, 40 - (minutes - 180)/60) from 180 on), and
\* 50.0 when no your-message is directly followed by a their-message
C13_StatedResponseMapping ==
    ret.fn = "response_time" =>
        ret.value = (IF HasResponse THEN StatedResponseScore(AvgResponse)
                     ELSE I(50))

\* the two-message exchanges with each modelled delay
ReplyAfter(gap) ==
    [rows |-> <<Message("", 0, "You"), Message("", gap, "Sarah")>>,
     has_gap |-> FALSE, time_gap |-> <<>>]
ReplyDelays == {120, 1200, 3595, 3600, 7200, 14400, 18000}

\* C18 as stated: the response-time score does not increase with the average
\* response time: of two averages a <= b the score of a is at least the
\* score of b, across the bounds of the segments too
C18_ResponseMonotone ==
    (ret.fn = "response_time" /\ HasResponse) =>
        \A gap \in ReplyDelays :
            QLe(AvgResponse, Q(gap, 60)) =>
                QGe(ret.value, analyze_response_time(ReplyAfter(gap), "Sarah"))

-----------------------------------------------------------------------------
(* SpecAggregate: the weighted sum and the result of                        *)
(* calculate_overall_interest for given values of the eight signals         *)

\* signal values: every mix of 0 and 100 and of 20 and 60.5, and all eight
\* signals alike
AggregateInputs ==
    [SignalKeys -> {I(0), I(100)}]
        \cup [SignalKeys -> {I(20), Q(605, 10)}]
        \cup {[k \in SignalKeys |-> v] :
                v \in {I(10 * n) : n \in 0..10} \cup {Q(333, 10), Q(7996, 100)}}

InitAggregate ==
    /\ ParserIdle
    /\ messages = <<>>
    /\ df = NoFrame
    /\ target_sender = "Sarah"
    /\ engagement_signals \in AggregateInputs
    /\ results = NoResults
    /\ ret = NoReturn
    /\ calls = 0
    /\ pc = "signals"

\* calculate_overall_interest from the weights on: the weighted sum, the
\* interpretation and the returned dict
Aggregate ==
    /\ pc = "signals"
    /\ results' = MakeResults(engagement_signals, df, target_sender)
    /\ pc' = "aggregated"
    /\ UNCHANGED <<parserVars, messages, df, target_sender, engagement_signals,
                   ret, calls>>

NextAggregate == Aggregate

SpecAggregate == InitAggregate /\ [][NextAggregate]_vars

\* the smallest and the largest of the eight signals
SmallestSignal ==
    CHOOSE v \in {engagement_signals[k] : k \in SignalKeys} :
        \A k \in SignalKeys : QLe(v, engagement_signals[k])
LargestSignal ==
    CHOOSE v \in {engagement_signals[k] : k \in SignalKeys} :
        \A k \in SignalKeys : QGe(v, engagement_signals[k])

\* 0.18 r + 0.15 c + 0.15 e + 0.13 p + 0.12 m + 0.10 q + 0.09 j + 0.08 n
StatedWeightedSum ==
    LET e == engagement_signals
        term(hundredths, v) == QMul(Q(hundredths, 100), v)
    IN  QAdd(term(18, e["response_time"]),
        QAdd(term(15, e["conversation_initiation"]),
        QAdd(term(15, e["enthusiasm"]),
        QAdd(term(13, e["reciprocity"]),
        QAdd(term(12, e["message_length"]),
        QAdd(term(10, e["question_asking"]),
        QAdd(term(9, e["emoji_usage"]), term(8, e["consistency"]))))))))

-----------------------------------------------------------------------------
(* Properties of the reciprocity and initiation signals *)

\* C15 as stated: for every sequence in which no message comes from a sender
\* other than the target analyze_reciprocity returns 100 if the target sent
\* a message and 0 otherwise, also for a single message of the target
C15_Original ==
    (ret.fn = "reciprocity" /\ YourRows(df.rows, target_sender) = <<>>) =>
        ret.value = (IF TheirRows(df.rows, target_sender) # <<>> THEN I(100)
                     ELSE I(0))

\* C15 as amended: for a sequence all of whose messages come from the target
\* analyze_reciprocity returns 100 when it has two messages or more, and 50.0
\* when it is a single message
C15_ReciprocityAllTarget ==
    (ret.fn = "reciprocity" /\ TargetSentAll) =>
        ret.value = (IF Len(df.rows) >= 2 THEN I(100) ELSE I(50))

\* a single message of the target, the case the amendment changes
C15_Witness ==
    /\ ret.fn = "reciprocity" /\ TargetSentAll
    /\ Len(df.rows) = 1
    /\ ret.value = I(50)

\* the messages the claim calls conversation starts: every message but the
\* first that comes strictly more than 4 hours after the message before it
StatedStarts ==
    {i \in 2..Len(df.rows) :
        df.rows[i].timestamp - df.rows[i - 1].timestamp > GapHours * 3600}

\* the fraction of the stated starts sent by the target
StatedStartFraction ==
    Q(Cardinality({i \in StatedStarts : df.rows[i].sender = target_sender}),
      Cardinality(StatedStarts))

\* the score of a fraction of starts (lines 166-177 of the analyzer)
InitiationScore(initiation_ratio) ==
    LET score ==
            IF QLe(Q(4, 10), initiation_ratio) /\ QLe(initiation_ratio, Q(6, 10))
                THEN I(100)
            ELSE IF QLe(Q(3, 10), initiation_ratio)
                    /\ QLt(initiation_ratio, Q(4, 10))
                THEN QAdd(I(70), QMul(QSub(initiation_ratio, Q(3, 10)), I(300)))
            ELSE IF QLt(Q(6, 10), initiation_ratio)
                    /\ QLe(initiation_ratio, Q(7, 10))
                THEN QSub(I(100), QMul(QSub(initiation_ratio, Q(6, 10)), I(100)))
            ELSE QMax(I(30), QMul(initiation_ratio, I(150)))
    IN  QMin(I(100), score)

\* C16: analyze_conversation_initiation counts as conversation starts exactly
\* the messages, other than the first, that come strictly more than 4 hours
\* after the message before them (a gap of exactly 4 hours does not count);
\* its score is a function of the fraction of those starts sent by the
\* target alone, and is 50.0 when the sequence has fewer than 2 messages or
\* no such gap
C16_StartsAfterFourHours ==
    ret.fn = "conversation_initiation" =>
        ret.value = (IF Len(df.rows) < 2 \/ StatedStarts = {} THEN I(50)
                     ELSE InitiationScore(StatedStartFraction))

\* a sequence with one gap of exactly 4 hours and one longer gap: only the
\* message after the longer gap is a start, and the score is not the default
C16_Witness ==
    /\ ret.fn = "conversation_initiation"
    /\ \E i \in 2..Len(df.rows) :
          df.rows[i].timestamp - df.rows[i - 1].timestamp = GapHours * 3600
    /\ StatedStarts # {}
    /\ ret.value # I(50)

-----------------------------------------------------------------------------
(* SpecFrame: a new analyzer loads one conversation; its signal methods and *)
(* calculate_overall_interest are then called on the frame in any order     *)

\* conversations of up to MaxLen messages an hour or five hours apart
FrameInputs == Conversations({3600, 18000}, {"", "awesome!"}, 1, MaxLen)

InitFrame ==
    /\ ParserIdle
    /\ messages \in FrameInputs
    /\ target_sender \in Targets
    /\ df = NoFrame
    /\ engagement_signals = NewSignals
    /\ results = NoResults
    /\ ret = NoReturn
    /\ calls = 0
    /\ pc = "new"

NextFrame ==
    \/ LoadMessages
    \/ AnalyzeResponseTime
    \/ AnalyzeMessageLength
    \/ AnalyzeEmojiUsage
    \/ AnalyzeQuestionAsking
    \/ AnalyzeConversationInitiation
    \/ AnalyzeEnthusiasm
    \/ AnalyzeConsistency
    \/ AnalyzeReciprocity
    \/ CalculateOverallInterest

SpecFrame == InitFrame /\ [][NextFrame]_vars

\* the caller's sequence after a call has the messages it had before, in the
\* same order, with the same text, timestamp and sender
MessagesKept ==
    /\ Len(df'.rows) = Len(df.rows)
    /\ \A i \in 1..Len(df.rows) :
          /\ df'.rows[i].text = df.rows[i].text
          /\ df'.rows[i].timestamp = df.rows[i].timestamp
          /\ df'.rows[i].sender = df.rows[i].sender

\* the call added the time_gap field to a sequence that did not have it
TimeGapAdded ==
    /\ ~df.has_gap
    /\ df'.has_gap
    /\ Len(df'.time_gap) = Len(df.rows)

\* C17: calculate_overall_interest and the eight analyze_* functions leave the
\* messages of the caller's sequence, their number and their order as they
\* were; the only change of the sequence is the added time_gap field, made
\* only where analyze_conversation_initiation runs (called directly or by
\* calculate_overall_interest) on a sequence of at least 2 messages
C17_FrameEffect ==
    [][ pc = "loaded" =>
          /\ MessagesKept
          /\ df' # df =>
                /\ TimeGapAdded
                /\ Len(df.rows) >= 2
                /\ AnalyzeConversationInitiation \/ CalculateOverallInterest
      ]_vars

\* after a direct call of analyze_conversation_initiation on a sequence of
\* two messages or more the frame has the time_gap field and the messages
\* that were loaded
C17_Witness ==
    /\ ret.fn = "conversation_initiation"
    /\ results = NoResults
    /\ Len(df.rows) >= 2
    /\ df.has_gap
    /\ df.rows \in SortOutcomes(messages)

====
